---- MODULE Spec2Model ----
(***************************************************************************)
(* The rule engine of rust-uno: the Game state machine of                  *)
(* backend/src/gamestate/game.rs, driven through the play_card and         *)
(* draw_card request handlers of backend/src/handler.                      *)
(*                                                                         *)
(* Card, Deck, ActiveCards, Player and the WebSocket messages are not part *)
(* of the source tree at hand; they are modelled from the specification    *)
(* (sections 3, 4.1-4.3 and 6).                                             *)
(*                                                                         *)
(* Scaling.  The source deals 7 cards from a deck of 108.  The model keeps *)
(* the names of the two constants and scales their values, so that whole   *)
(* games, an exhausted draw pile and a deck too small for the seated       *)
(* players all happen within the bounds.                                   *)
(*                                                                         *)
(* Shuffling.  A shuffled pile is only ever read from its top, so the draw *)
(* pile is kept as a bag and each draw takes any card of it: the choice of *)
(* the permutation is made one card at a time.                             *)
(***************************************************************************)
EXTENDS Integers, Sequences, FiniteSets, Bags

VARIABLES
    status,          \* Game.status: "Lobby", "Running", "Finished"
    players,         \* Game.players: sequence of Player records, in seating order
    deck,            \* Game.deck: [draw_pile, discard_pile]
    current_player,  \* Game.current_player: 0-based index into players
    active_cards,    \* Game.active_cards: sequence of cards of one symbol
    is_clockwise,    \* Game.is_clockwise
    poisoned,        \* the repository mutex was poisoned by a panic under the lock
    card_set,        \* which fixed card set Deck::new builds (never changes)
    starts,          \* how many times start() got past its status check
    regular,         \* history: the last start succeeded and nobody joined since
    draw_run,        \* history: [symbol, count], how many Draw2, or Draw4, were
                     \* played in a row since the last draw or play of another
                     \* symbol
    repo_lock,       \* the repository mutex: 0 when free, else the request holding it
    inflight,        \* the requests in the handlers: [pc, call, seen] each
    servers,         \* GameServerRepo.servers: the Vec of addresses
    servers_lock,    \* the RwLock of servers: [writer, readers]
    calls,           \* the add and get calls of GameServerRepo: [pc, op, address,
                     \* server_id, result, before] each
    answers          \* history: the <<id, address>> pairs that get has returned

gamevars == <<status, players, deck, current_player, active_cards, is_clockwise>>
vars == <<status, players, deck, current_player, active_cards, is_clockwise,
          poisoned, card_set, starts, regular, draw_run, repo_lock, inflight,
          servers, servers_lock, calls, answers>>
lbvars == <<servers, servers_lock, calls, answers>>

-----------------------------------------------------------------------------
(* Bounds *)

\* gamestate/mod.rs:6 sets 7; scaled.
CARDS_DEALT_TO_PLAYERS == 2
\* gamestate/mod.rs:7 sets 108; scaled. The deck is the first
\* CARDS_TOTAL_IN_GAME cards of a catalogue.
CARDS_TOTAL_IN_GAME == 5
\* add_player is called until at most this many players are seated.
MaxPlayers == 4
\* start() gets past its status check at most this many times; the game begun
\* by the last of them is not played on.
MaxStarts == 2
\* players.shuffle yields one of this many seat orders.
MaxShuffles == 2
\* this many requests are in the handlers at a time.
MaxRequests == 2
\* with the requests taken step by step, this many players are seated and
\* start() gets past its status check this many times.
MaxHandlerPlayers == 2
MaxHandlerStarts == 1
\* GameServerRepo: this many calls at a time, this many addresses, and a list
\* of at most this many servers
MaxCalls == 2
MaxAddresses == 2
MaxServers == 3

-----------------------------------------------------------------------------
(* Options: None is <<>>, Some(x) is <<x>> *)

None == <<>>
Some(x) == <<x>>
IsSome(o) == o # <<>>
Unwrap(o) == o[1]

-----------------------------------------------------------------------------
(* Card *)

Card(c, s) == [color |-> c, symbol |-> s]

RegularColors == {"Red", "Blue"}

\* Card::should_be_black: the wild family
ShouldBeBlack(card) == card.symbol \in {"Wild", "Draw4"}

\* Card::morph_black_card: Some(recoloured card), None for a card that is not Black
MorphBlackCard(card, color) ==
    IF card.color = "Black" THEN Some(Card(color, card.symbol)) ELSE None

\* The card sets: the deck is the first CARDS_TOTAL_IN_GAME cards of one of them
Catalogues ==
    << << Card("Red", "Draw2"), Card("Blue", "Draw2"), Card("Black", "Wild"),
          Card("Red", "Skip"), Card("Blue", "Value1"), Card("Red", "Value2"),
          Card("Black", "Draw4"), Card("Blue", "Skip") >>,
       << Card("Red", "Reverse"), Card("Red", "Draw2"), Card("Blue", "Draw2"),
          Card("Black", "Draw4"), Card("Black", "Draw4"), Card("Blue", "Reverse"),
          Card("Black", "Wild"), Card("Blue", "Value1") >> >>

RECURSIVE SeqToBag(_)
SeqToBag(s) ==
    IF s = <<>> THEN EmptyBag ELSE SetToBag({Head(s)}) (+) SeqToBag(Tail(s))

\* the full card set that Deck::new builds
FullCardSet(cs) == SeqToBag(SubSeq(Catalogues[cs], 1, CARDS_TOTAL_IN_GAME))

-----------------------------------------------------------------------------
(* Deck *)

IsEmptyBag(b) == BagToSet(b) = {}

\* Deck::new: the full set shuffled, its first card turned over as the discard top
DeckNew(cs) ==
    { [draw_pile |-> FullCardSet(cs) (-) SetToBag({c}), discard_pile |-> <<c>>] :
        c \in BagToSet(FullCardSet(cs)) }

\* a refill that takes the whole discard pile, its top card too
DeckRefillWholePile(d) ==
    IF IsEmptyBag(d.draw_pile) /\ Len(d.discard_pile) >= 1
    THEN [draw_pile |-> SeqToBag(d.discard_pile), discard_pile |-> <<>>]
    ELSE d

\* On an empty draw pile all but the top discard card go back, shuffled
DeckRefill(d) ==
    IF IsEmptyBag(d.draw_pile) /\ Len(d.discard_pile) > 1
    THEN [draw_pile |-> SeqToBag(SubSeq(d.discard_pile, 1, Len(d.discard_pile) - 1)),
          discard_pile |-> << d.discard_pile[Len(d.discard_pile)] >>]
    ELSE d

\* Deck::draw: the outcomes [card: Option<Card>, deck]
DeckDraw(d) ==
    LET r == DeckRefill(d)
    IN  IF IsEmptyBag(r.draw_pile)
        THEN { [card |-> None, deck |-> r] }
        ELSE { [card |-> Some(c),
                deck |-> [r EXCEPT !.draw_pile = @ (-) SetToBag({c})]] :
                 c \in BagToSet(r.draw_pile) }

\* Deck::play
DeckPlay(d, card) == [d EXCEPT !.discard_pile = Append(@, card)]

\* Deck::top_discard_card
TopDiscardCard(d) == d.discard_pile[Len(d.discard_pile)]

DeckCount(d) == BagCardinality(d.draw_pile) + Len(d.discard_pile)

-----------------------------------------------------------------------------
(* ActiveCards *)

AreCardsActive(a) == a # <<>>

ActiveSymbol(a) == IF a = <<>> THEN None ELSE Some(a[1].symbol)

\* ActiveCards::push: [ok, cards]
ActivePush(a, card) ==
    IF a = <<>> \/ a[1].symbol = card.symbol
    THEN [ok |-> TRUE, cards |-> Append(a, card)]
    ELSE [ok |-> FALSE, cards |-> a]

\* ActiveCards::sum_active_draw_cards
SumActiveDrawCards(a) ==
    IF a = <<>> THEN None
    ELSE IF a[1].symbol = "Draw2" THEN Some(2 * Len(a))
    ELSE IF a[1].symbol = "Draw4" THEN Some(4 * Len(a))
    ELSE None

-----------------------------------------------------------------------------
(* Player.  The hand is kept as a bag: its order matters to display only. *)

PlayerNames == << "ann", "bob", "cid", "dan", "eve", "fay" >>

PlayerNew(name, is_author) ==
    [name |-> name, cards |-> EmptyBag, is_author |-> is_author, position |-> None]

\* Player::is_finished
IsFinished(player) == IsEmptyBag(player.cards)

\* Player::give_card
GiveCard(player, card) == [player EXCEPT !.cards = @ (+) SetToBag({card})]

\* Player::drop_all_cards
DropAllCards(player) == [player EXCEPT !.cards = EmptyBag]

\* Player::clear_position
ClearPosition(player) == [player EXCEPT !.position = None]

\* Player::play_card_by_eq: [ok, player]; one card equal to the wanted one leaves
\* the hand
PlayCardByEq(player, card) ==
    IF BagIn(card, player.cards)
    THEN [ok |-> TRUE, player |-> [player EXCEPT !.cards = @ (-) SetToBag({card})]]
    ELSE [ok |-> FALSE, player |-> player]

\* Player::set_position: [ok, player]; a second call in one game is an
\* invariant violation
SetPosition(player, rank) ==
    IF IsSome(player.position)
    THEN [ok |-> FALSE, player |-> player]
    ELSE [ok |-> TRUE, player |-> [player EXCEPT !.position = Some(rank)]]

-----------------------------------------------------------------------------
(* Game: the value the operations work on *)

Game ==
    [status |-> status, players |-> players, deck |-> deck,
     current_player |-> current_player, active_cards |-> active_cards,
     is_clockwise |-> is_clockwise]

SetGame(g) ==
    /\ status' = g.status
    /\ players' = g.players
    /\ deck' = g.deck
    /\ current_player' = g.current_player
    /\ active_cards' = g.active_cards
    /\ is_clockwise' = g.is_clockwise

\* Game::find_player / does_player_exist: 1-based index of the first player of
\* that name, 0 if there is none
RECURSIVE FindPlayerFrom(_, _, _)
FindPlayerFrom(ps, name, i) ==
    IF i > Len(ps) THEN 0
    ELSE IF ps[i].name = name THEN i
    ELSE FindPlayerFrom(ps, name, i + 1)

FindPlayer(g, name) == FindPlayerFrom(g.players, name, 1)

\* Game::find_author
HasAuthor(g) == \E i \in 1..Len(g.players) : g.players[i].is_author

\* Game::get_current_player: Option<index>
GetCurrentPlayer(g) ==
    IF g.current_player < Len(g.players) THEN Some(g.current_player + 1) ELSE None

\* Game::get_finished_players: the indices of the players with an empty hand
FinishedPlayers(g) == { i \in 1..Len(g.players) : IsFinished(g.players[i]) }

\* sort_by_key unwraps the position of every element it compares: with two or
\* more finished players each of them is compared
FinishedPlayersPanics(g) ==
    /\ Cardinality(FinishedPlayers(g)) >= 2
    /\ \E i \in FinishedPlayers(g) : g.players[i].position = None

\* Game::next_turn
NextTurn(g) ==
    LET n == Len(g.players)
        stepped == IF g.is_clockwise
                   THEN g.current_player + 1
                   ELSE IF g.current_player = 0 THEN n - 1
                        ELSE g.current_player - 1
    IN  [g EXCEPT !.current_player = stepped % n]

\* the loop of end_turn: step until the current player is not finished
RECURSIVE StepToUnfinished(_)
StepToUnfinished(g) ==
    LET g1 == NextTurn(g)
        cur == GetCurrentPlayer(g1)
    IN  IF IsSome(cur) /\ ~IsFinished(g1.players[Unwrap(cur)])
        THEN g1
        ELSE StepToUnfinished(g1)

\* end_turn without its loop: one step of the turn pointer
EndTurnOneStep(g) ==
    IF FinishedPlayersPanics(g)
    THEN [g |-> g, found |-> FALSE, panic |-> TRUE]
    ELSE IF Cardinality(FinishedPlayers(g)) = Len(g.players)
    THEN [g |-> g, found |-> FALSE, panic |-> FALSE]
    ELSE [g |-> NextTurn(g), found |-> TRUE, panic |-> FALSE]

\* Game::end_turn: [g, found, panic]
EndTurn(g) ==
    IF FinishedPlayersPanics(g)
    THEN [g |-> g, found |-> FALSE, panic |-> TRUE]
    ELSE IF Cardinality(FinishedPlayers(g)) = Len(g.players)
    THEN [g |-> g, found |-> FALSE, panic |-> FALSE]
    ELSE [g |-> StepToUnfinished(g), found |-> TRUE, panic |-> FALSE]

\* WSMsg::status(game, name): the snapshot names the author, the recipient and
\* the current player; it fails when one of them is missing
StatusMessageOk(g, name) ==
    /\ HasAuthor(g)
    /\ FindPlayer(g, name) # 0
    /\ IsSome(GetCurrentPlayer(g))

\* Game::status_message_all
StatusMessageAll(g) ==
    IF \A i \in 1..Len(g.players) : StatusMessageOk(g, g.players[i].name)
    THEN "Ok" ELSE "CreateStatusError"

\* the messages status_message_all sends: one status per player, each with the
\* name of its recipient, up to the first one that cannot be built
StatusMessagesSent(g) ==
    LET built == { i \in 1..Len(g.players) :
                     \A j \in 1..i : StatusMessageOk(g, g.players[j].name) }
    IN  [i \in 1..Cardinality(built) |->
            [to |-> g.players[i].name, msg |-> <<"status", g.players[i].name>>]]

\* Game::message_all: the message goes to every player, in seating order
MessageAll(g, msg) ==
    [i \in 1..Len(g.players) |-> [to |-> g.players[i].name, msg |-> msg]]

\* can_play_card that answers a chain by colour
CanPlayCardChainByColor(g, played_card) ==
    LET top_card == TopDiscardCard(g.deck)
    IN  IF AreCardsActive(g.active_cards)
        THEN played_card.color = top_card.color
        ELSE \/ played_card.color = "Black"
             \/ played_card.color = top_card.color
             \/ played_card.symbol = top_card.symbol

\* can_play_card without the chain rule
CanPlayCardIgnoringChain(g, played_card) ==
    LET top_card == TopDiscardCard(g.deck)
    IN  \/ played_card.color = "Black"
        \/ played_card.color = top_card.color
        \/ played_card.symbol = top_card.symbol

\* Game::can_play_card
CanPlayCard(g, played_card) ==
    LET top_card == TopDiscardCard(g.deck)
    IN  IF AreCardsActive(g.active_cards)
        THEN played_card.symbol = Unwrap(ActiveSymbol(g.active_cards))
        ELSE \/ played_card.color = "Black"
             \/ played_card.color = top_card.color
             \/ played_card.symbol = top_card.symbol

\* Game::does_player_exist followed by Game::is_player_at_turn: "Ok" or the error
PlayerAtTurn(g, player_name) ==
    LET idx == FindPlayer(g, player_name)
        cur == GetCurrentPlayer(g)
    IN  IF idx = 0 THEN "NoSuchPlayer"
        ELSE IF cur = None THEN "NoOneIsPlaying"
        ELSE IF g.players[idx].name # g.players[Unwrap(cur)].name
             THEN "PlayerOutOfTurn"
        ELSE "Ok"

\* can_player_draw without the Skip rule
CanPlayerDrawNoSkipRule(g, player_name) ==
    LET turn == PlayerAtTurn(g, player_name)
        player == g.players[FindPlayer(g, player_name)]
    IN  IF turn # "Ok" THEN turn
        ELSE IF \E card \in BagToSet(player.cards) : CanPlayCard(g, card)
             THEN "PlayerCanPlayInstead"
        ELSE "Ok"

\* can_player_draw without the look at the hand
CanPlayerDrawAnyHand(g, player_name) ==
    LET turn == PlayerAtTurn(g, player_name)
    IN  IF turn # "Ok" THEN turn
        ELSE IF /\ AreCardsActive(g.active_cards)
                /\ Unwrap(ActiveSymbol(g.active_cards)) = "Skip"
             THEN "PlayerMustPlayInstead"
        ELSE "Ok"

\* Game::can_player_draw
CanPlayerDraw(g, player_name) ==
    LET turn == PlayerAtTurn(g, player_name)
        player == g.players[FindPlayer(g, player_name)]
    IN  IF turn # "Ok" THEN turn
        ELSE IF \E card \in BagToSet(player.cards) : CanPlayCard(g, card)
             THEN "PlayerCanPlayInstead"
        ELSE IF /\ AreCardsActive(g.active_cards)
                /\ Unwrap(ActiveSymbol(g.active_cards)) = "Skip"
             THEN "PlayerMustPlayInstead"
        ELSE "Ok"

\* can_player_play without the legality check
CanPlayerPlayAnyCard(g, player_name, card) == PlayerAtTurn(g, player_name)

\* the card that can_player_draw puts into PlayerMustPlayInstead
MustPlayInsteadCard(g, player_name) ==
    IF CanPlayerDraw(g, player_name) = "PlayerMustPlayInstead"
    THEN Some(TopDiscardCard(g.deck)) ELSE None

\* Game::can_player_play
CanPlayerPlay(g, player_name, card) ==
    LET turn == PlayerAtTurn(g, player_name)
    IN  IF turn # "Ok" THEN turn
        ELSE IF ~CanPlayCard(g, card) THEN "CardCannotBePlayed"
        ELSE "Ok"

-----------------------------------------------------------------------------
(* Game::start *)

\* the outcomes of players.shuffle that are considered: the rotations by
\* 0 .. MaxShuffles - 1 seats
Shuffles(n) ==
    { [i \in 1..n |-> ((i + k - 1) % n) + 1] : k \in 0..(MaxShuffles - 1) }

\* Game::randomize_player_order
RandomizePlayerOrder(g) ==
    { [g EXCEPT !.players = [i \in 1..Len(g.players) |-> g.players[f[i]]]] :
        f \in Shuffles(Len(g.players)) }

\* Game::randomize_starting_player
RandomizeStartingPlayer(g) ==
    { [g EXCEPT !.current_player = c] : c \in 0..(Len(g.players) - 1) }

\* clear_player_positions doing nothing
KeepPlayerPositions(g) == g

\* Game::clear_player_positions
ClearPlayerPositions(g) ==
    [g EXCEPT !.players = [i \in 1..Len(g.players) |-> ClearPosition(g.players[i])]]

\* one deck.draw() of deal_starting_cards for player i, on every outcome so far
DealOneCard(outs, i) ==
    UNION { IF ~o.ok THEN { o }
            ELSE { IF d.card = None
                   THEN [g |-> [o.g EXCEPT !.deck = d.deck], ok |-> FALSE]
                   ELSE [g |-> [o.g EXCEPT !.deck = d.deck,
                                          !.players[i] = GiveCard(@, Unwrap(d.card))],
                         ok |-> TRUE] :
                   d \in DeckDraw(o.g.deck) } :
            o \in outs }

\* the inner loop of deal_starting_cards: k more cards for player i
RECURSIVE DealCards(_, _, _)
DealCards(outs, i, k) ==
    IF k = 0 THEN outs ELSE DealCards(DealOneCard(outs, i), i, k - 1)

\* the outer loop of deal_starting_cards, from player i on: a failed draw returns
\* at once, the players after it keep their hands
RECURSIVE DealFrom(_, _)
DealFrom(outs, i) ==
    IF outs = {} \/ \A o \in outs : i > Len(o.g.players) THEN outs
    ELSE LET dropped == { IF o.ok
                          THEN [o EXCEPT !.g.players[i] = DropAllCards(@)]
                          ELSE o : o \in outs }
         IN  DealFrom(DealCards(dropped, i, CARDS_DEALT_TO_PLAYERS), i + 1)

\* Game::deal_starting_cards
DealStartingCards(g, cs) ==
    DealFrom({ [g |-> [g EXCEPT !.deck = d], ok |-> TRUE] : d \in DeckNew(cs) }, 1)

\* a status check that lets start() through from Lobby only
StartRejectedUnlessLobby(g) == g.status # "Lobby"

\* the status check of Game::start
StartRejected(g) == g.status = "Running"

\* Game::start: the outcomes [g, result]
StartOutcomes(g, cs) ==
    IF StartRejected(g)
    THEN { [g |-> g, result |-> "GameAlreadyStarted"] }
    ELSE UNION { UNION {
           { [g |-> o.g,
              result |-> IF ~o.ok THEN "DeckEmptyWhenStartingGame"
                         ELSE StatusMessageAll(o.g)] :
               o \in DealStartingCards(
                        [ClearPlayerPositions(g2) EXCEPT !.status = "Running"], cs) } :
           g2 \in RandomizeStartingPlayer(g1) } :
           g1 \in RandomizePlayerOrder(g) }

-----------------------------------------------------------------------------
(* Game::play_card *)

\* handle_played_card that clears the chain before every push
HandlePlayedCardFreshChain(g, played_card) ==
    IF played_card.symbol \in {"Draw2", "Draw4", "Skip"}
    THEN [g |-> [g EXCEPT !.active_cards = << played_card >>], panic |-> FALSE]
    ELSE IF played_card.symbol = "Reverse"
    THEN [g |-> [g EXCEPT !.is_clockwise = ~@, !.active_cards = <<>>],
          panic |-> FALSE]
    ELSE [g |-> [g EXCEPT !.active_cards = <<>>], panic |-> FALSE]

\* Game::handle_played_card: [g, panic]
HandlePlayedCard(g, played_card) ==
    IF played_card.symbol \in {"Draw2", "Draw4", "Skip"}
    THEN LET pushed == ActivePush(g.active_cards, played_card)
         IN  [g |-> [g EXCEPT !.active_cards = pushed.cards], panic |-> ~pushed.ok]
    ELSE IF played_card.symbol = "Reverse"
    THEN [g |-> [g EXCEPT !.is_clockwise = ~@, !.active_cards = <<>>],
          panic |-> FALSE]
    ELSE [g |-> [g EXCEPT !.active_cards = <<>>], panic |-> FALSE]

\* mutate_player that resolves the effect of the wanted card before it looks
\* for the card in the hand
MutatePlayerEffectFirst(g, player_name, wanted_card, maybe_new_color, possible_position) ==
    LET idx == FindPlayer(g, player_name)
        taken == PlayCardByEq(g.players[idx], wanted_card)
        morph == ShouldBeBlack(wanted_card) /\ IsSome(maybe_new_color)
        morphed == MorphBlackCard(wanted_card, Unwrap(maybe_new_color))
        played_card == IF morph THEN Unwrap(morphed) ELSE wanted_card
        player_finished == IsFinished(taken.player)
        ranked == SetPosition(taken.player, possible_position)
        g1 == [g EXCEPT !.players[idx] = taken.player]
    IN  IF ~taken.ok
        THEN [g |-> HandlePlayedCard(g, wanted_card).g, result |-> "PlayerHasNoSuchCard",
              played_card |-> wanted_card, player_finished |-> FALSE]
        ELSE IF morph /\ morphed = None
        THEN [g |-> g1, result |-> "Panic",
              played_card |-> wanted_card, player_finished |-> FALSE]
        ELSE IF player_finished /\ ~ranked.ok
        THEN [g |-> g1, result |-> "Panic",
              played_card |-> played_card, player_finished |-> TRUE]
        ELSE [g |-> IF player_finished
                    THEN [g EXCEPT !.players[idx] = ranked.player]
                    ELSE g1,
              result |-> "Ok",
              played_card |-> played_card, player_finished |-> player_finished]

\* Game::mutate_player: [g, result, played_card, player_finished]; result is
\* "Ok", "PlayerHasNoSuchCard" or "Panic" (an unwrap that fails)
MutatePlayer(g, player_name, wanted_card, maybe_new_color, possible_position) ==
    LET idx == FindPlayer(g, player_name)
        taken == PlayCardByEq(g.players[idx], wanted_card)
        morph == ShouldBeBlack(wanted_card) /\ IsSome(maybe_new_color)
        morphed == MorphBlackCard(wanted_card, Unwrap(maybe_new_color))
        played_card == IF morph THEN Unwrap(morphed) ELSE wanted_card
        player_finished == IsFinished(taken.player)
        ranked == SetPosition(taken.player, possible_position)
        g1 == [g EXCEPT !.players[idx] = taken.player]
    IN  IF ~taken.ok
        THEN [g |-> g, result |-> "PlayerHasNoSuchCard",
              played_card |-> wanted_card, player_finished |-> FALSE]
        ELSE IF morph /\ morphed = None
        THEN [g |-> g1, result |-> "Panic",
              played_card |-> wanted_card, player_finished |-> FALSE]
        ELSE IF player_finished /\ ~ranked.ok
        THEN [g |-> g1, result |-> "Panic",
              played_card |-> played_card, player_finished |-> TRUE]
        ELSE [g |-> IF player_finished
                    THEN [g EXCEPT !.players[idx] = ranked.player]
                    ELSE g1,
              result |-> "Ok",
              played_card |-> played_card, player_finished |-> player_finished]

\* play_card_messages that ends the game when the player who played has
\* finished
PlayCardMessagesEndOnFinish(g, player_finished, player_name, played_card) ==
    LET cur == GetCurrentPlayer(g)
    IN  IF cur = None THEN [g |-> g, result |-> "Panic", sent |-> <<>>]
        ELSE IF player_finished
        THEN LET g1 == [g EXCEPT !.status = "Finished"]
             IN  [g |-> g1, result |-> StatusMessageAll(g1), sent |-> <<>>]
        ELSE [g |-> g, result |-> "Ok", sent |-> <<>>]

\* play_card_messages that tells of the finish before it tells of the card
PlayCardMessagesFinishFirst(g, player_finished, player_name, played_card) ==
    LET cur == GetCurrentPlayer(g)
        new_player_name == g.players[Unwrap(cur)].name
        played == MessageAll(g, <<"play_card", player_name, new_player_name, played_card>>)
        finish == IF player_finished THEN MessageAll(g, <<"finish", player_name>>)
                  ELSE <<>>
    IN  IF cur = None THEN [g |-> g, result |-> "Panic", sent |-> <<>>]
        ELSE IF new_player_name = player_name
        THEN LET g1 == [g EXCEPT !.status = "Finished"]
             IN  [g |-> g1, result |-> StatusMessageAll(g1),
                  sent |-> finish \o played \o StatusMessagesSent(g1)]
        ELSE [g |-> g, result |-> "Ok", sent |-> finish \o played]

\* Game::play_card_messages: [g, result, sent]
PlayCardMessages(g, player_finished, player_name, played_card) ==
    LET cur == GetCurrentPlayer(g)
        new_player_name == g.players[Unwrap(cur)].name
        played == MessageAll(g, <<"play_card", player_name, new_player_name, played_card>>)
        finish == IF player_finished THEN MessageAll(g, <<"finish", player_name>>)
                  ELSE <<>>
    IN  IF cur = None THEN [g |-> g, result |-> "Panic", sent |-> <<>>]
        ELSE IF new_player_name = player_name
        THEN LET g1 == [g EXCEPT !.status = "Finished"]
             IN  [g |-> g1, result |-> StatusMessageAll(g1),
                  sent |-> played \o finish \o StatusMessagesSent(g1)]
        ELSE [g |-> g, result |-> "Ok", sent |-> played \o finish]

\* a rank that does not count the players already finished
PossiblePositionZero(g) == 0

\* the rank play_card hands to mutate_player: get_finished_players().len()
PossiblePosition(g) == Cardinality(FinishedPlayers(g))

\* Game::play_card: [g, result, sent]
GamePlayCard(g, player_name, card, maybe_new_color) ==
    LET check == CanPlayerPlay(g, player_name, card)
        possible_position == PossiblePosition(g)
        m == MutatePlayer(g, player_name, card, maybe_new_color, possible_position)
        h == HandlePlayedCard(m.g, m.played_card)
        g2 == [h.g EXCEPT !.deck = DeckPlay(@, m.played_card)]
        e == EndTurn(g2)
    IN  IF check # "Ok" THEN [g |-> g, result |-> check, sent |-> <<>>]
        ELSE IF FinishedPlayersPanics(g) THEN [g |-> g, result |-> "Panic", sent |-> <<>>]
        ELSE IF m.result # "Ok" THEN [g |-> m.g, result |-> m.result, sent |-> <<>>]
        ELSE IF h.panic THEN [g |-> h.g, result |-> "Panic", sent |-> <<>>]
        ELSE IF e.panic THEN [g |-> g2, result |-> "Panic", sent |-> <<>>]
        ELSE PlayCardMessages(e.g, m.player_finished, player_name, m.played_card)

-----------------------------------------------------------------------------
(* Game::draw_cards *)

\* one round of the loop of draw_n_cards, on every outcome so far: [g, drawn, dry]
DrawOneCard(outs, idx) ==
    UNION { IF o.dry THEN { o }
            ELSE { IF d.card = None
                   THEN [g |-> [o.g EXCEPT !.deck = d.deck],
                         drawn |-> o.drawn, dry |-> TRUE]
                   ELSE [g |-> [o.g EXCEPT !.deck = d.deck,
                                          !.players[idx] = GiveCard(@, Unwrap(d.card))],
                         drawn |-> o.drawn (+) SetToBag({Unwrap(d.card)}),
                         dry |-> FALSE] :
                   d \in DeckDraw(o.g.deck) } :
            o \in outs }

RECURSIVE DrawRounds(_, _, _)
DrawRounds(outs, idx, n) ==
    IF n = 0 THEN outs ELSE DrawRounds(DrawOneCard(outs, idx), idx, n - 1)

\* draw_n_cards that draws one card whatever n is
DrawNCardsJustOne(g, idx, n) ==
    DrawRounds({ [g |-> g, drawn |-> EmptyBag, dry |-> FALSE] }, idx, 1)

\* Game::draw_n_cards: the outcomes [g, drawn, dry]
DrawNCards(g, idx, n) ==
    DrawRounds({ [g |-> g, drawn |-> EmptyBag, dry |-> FALSE] }, idx, n)

\* Game::draw_cards: the outcomes [g, result, drawn]
GameDrawCards(g, player_name) ==
    LET check == CanPlayerDraw(g, player_name)
        active == AreCardsActive(g.active_cards)
        sum == SumActiveDrawCards(g.active_cards)
        draw_count == IF active THEN Unwrap(sum) ELSE 1
        g1 == IF active THEN [g EXCEPT !.active_cards = <<>>] ELSE g
    IN  IF check # "Ok" THEN { [g |-> g, result |-> check, drawn |-> EmptyBag] }
        ELSE IF active /\ sum = None
        THEN { [g |-> g, result |-> "Panic", drawn |-> EmptyBag] }
        ELSE { LET e == EndTurn(o.g)
               IN  IF e.panic \/ GetCurrentPlayer(e.g) = None
                   THEN [g |-> o.g, result |-> "Panic", drawn |-> o.drawn]
                   ELSE [g |-> e.g, result |-> "Ok", drawn |-> o.drawn] :
               o \in DrawNCards(g1, FindPlayer(g, player_name), draw_count) }

-----------------------------------------------------------------------------
(* The calls *)

\* a handler that calls Game::play_card whatever the status is
HandlerPlayCardUnguarded(g, player_name, card, maybe_new_color) ==
    GamePlayCard(g, player_name, card, maybe_new_color)

\* handler play_card: the status check, then Game::play_card
HandlerPlayCard(g, player_name, card, maybe_new_color) ==
    IF g.status # "Running"
    THEN [g |-> g, result |-> "GAME_NOT_RUNNING", sent |-> <<>>]
    ELSE GamePlayCard(g, player_name, card, maybe_new_color)

\* handler draw_card: the status check, then Game::draw_cards
HandlerDrawCard(g, player_name) ==
    IF g.status # "Running"
    THEN { [g |-> g, result |-> "GAME_NOT_RUNNING", drawn |-> EmptyBag] }
    ELSE GameDrawCards(g, player_name)

\* the cards a request may name: those of the deck, the wild family in black
\* and the wild family recoloured
InputCards ==
    BagToSet(FullCardSet(card_set)) \cup
    { Card("Black", "Wild"), Card("Black", "Draw4"),
      Card("Red", "Wild"), Card("Red", "Draw4") }

InputColors == { None, Some("Red"), Some("Blue") }

InputNames == { PlayerNames[i] : i \in 1..MaxPlayers }

Requests == 1..MaxRequests

\* a request that has not arrived or has been answered
IdleRequest == [pc |-> "idle", call |-> <<>>, seen |-> None]

Calls == 1..MaxCalls

\* a call of GameServerRepo that has not begun or has returned
IdleCall == [pc |-> "idle", op |-> "", address |-> 0, server_id |-> 0,
             result |-> <<>>, before |-> <<>>]

\* Game::new
Init ==
    /\ card_set = 1
    /\ status = "Lobby"
    /\ players = << PlayerNew(PlayerNames[1], TRUE) >>
    /\ deck \in DeckNew(card_set)
    /\ current_player = 0
    /\ active_cards = <<>>
    /\ is_clockwise = TRUE
    /\ poisoned = FALSE
    /\ regular = FALSE
    /\ starts = 0
    /\ draw_run = [symbol |-> "", count |-> 0]
    /\ repo_lock = 0
    /\ inflight = [r \in Requests |-> IdleRequest]
    /\ servers = <<>>
    /\ servers_lock = [writer |-> 0, readers |-> {}]
    /\ calls = [c \in Calls |-> IdleCall]
    /\ answers = {}

\* Game::add_player, with the next unused name
AddPlayer ==
    /\ UNCHANGED lbvars
    /\ ~poisoned
    /\ Len(players) < MaxPlayers
    /\ players' = Append(players, PlayerNew(PlayerNames[Len(players) + 1], FALSE))
    /\ regular' = FALSE
    /\ UNCHANGED <<status, deck, current_player, active_cards, is_clockwise, poisoned,
                   card_set, starts, draw_run, repo_lock, inflight>>

\* Game::start
Start ==
    /\ UNCHANGED lbvars
    /\ ~poisoned
    /\ StartRejected(Game) \/ starts < MaxStarts
    /\ starts' = IF StartRejected(Game) THEN starts ELSE starts + 1
    /\ \E o \in StartOutcomes(Game, card_set) :
        /\ SetGame(o.g)
        /\ regular' = IF o.result = "GameAlreadyStarted" THEN regular
                      ELSE o.result = "Ok"
    /\ UNCHANGED <<poisoned, card_set, draw_run, repo_lock, inflight>>

\* a playCard request
PlayCard(player_name, card, maybe_new_color) ==
    /\ UNCHANGED lbvars
    /\ ~poisoned
    /\ LET o == HandlerPlayCard(Game, player_name, card, maybe_new_color)
       IN  /\ o.g # Game => starts < MaxStarts
           /\ SetGame(o.g)
           /\ poisoned' = (o.result = "Panic")
           /\ draw_run' = IF o.result # "Ok" THEN draw_run
                           ELSE IF card.symbol \notin {"Draw2", "Draw4"}
                                THEN [symbol |-> "", count |-> 0]
                           ELSE IF draw_run.symbol = card.symbol
                                THEN [draw_run EXCEPT !.count = @ + 1]
                           ELSE [symbol |-> card.symbol, count |-> 1]
    /\ UNCHANGED <<regular, starts, card_set, repo_lock, inflight>>

\* a drawnCards request
DrawCards(player_name) ==
    /\ UNCHANGED lbvars
    /\ ~poisoned
    /\ \E o \in HandlerDrawCard(Game, player_name) :
           /\ o.g # Game => starts < MaxStarts
           /\ SetGame(o.g)
           /\ poisoned' = (o.result = "Panic")
           /\ draw_run' = IF o.result = "Ok" THEN [symbol |-> "", count |-> 0]
                           ELSE draw_run
    /\ UNCHANGED <<regular, starts, card_set, repo_lock, inflight>>

Next ==
    \/ AddPlayer
    \/ Start
    \/ \E p \in InputNames, c \in InputCards, nc \in InputColors : PlayCard(p, c, nc)
    \/ \E p \in InputNames : DrawCards(p)

Spec == Init /\ [][Next]_vars

\* Game::new with Deck::new building the second card set, the one with Reverse,
\* two Draw2 and two Draw4
InitReverseSet ==
    /\ card_set = 2
    /\ status = "Lobby"
    /\ players = << PlayerNew(PlayerNames[1], TRUE) >>
    /\ deck \in DeckNew(card_set)
    /\ current_player = 0
    /\ active_cards = <<>>
    /\ is_clockwise = TRUE
    /\ poisoned = FALSE
    /\ regular = FALSE
    /\ starts = 0
    /\ draw_run = [symbol |-> "", count |-> 0]
    /\ repo_lock = 0
    /\ inflight = [r \in Requests |-> IdleRequest]
    /\ servers = <<>>
    /\ servers_lock = [writer |-> 0, readers |-> {}]
    /\ calls = [c \in Calls |-> IdleCall]
    /\ answers = {}

SpecReverseSet == InitReverseSet /\ [][Next]_vars

-----------------------------------------------------------------------------
(* The play_card and draw_card handlers, step by step *)

\* the guard dropped right after the lookup
HolderNobody(r) == 0

\* the holder of the mutex once the game was looked up: `game` borrows from
\* the guard, which lives until the handler returns
HolderAfterLookup(r) == r

\* dropping the guard at the return of the handler
Unlock(r) == repo_lock' = IF repo_lock = r THEN 0 ELSE repo_lock

\* the request reaches a handler
Arrive(r) ==
    /\ UNCHANGED lbvars
    /\ inflight[r].pc = "idle"
    /\ inflight' = [inflight EXCEPT ![r].pc = "waiting"]
    /\ UNCHANGED <<gamevars, poisoned, card_set, starts, regular, draw_run, repo_lock>>

\* safe_lock(&game_repo): blocks while another request holds the mutex
Lock(r) ==
    /\ UNCHANGED lbvars
    /\ inflight[r].pc = "waiting"
    /\ ~poisoned
    /\ repo_lock = 0
    /\ repo_lock' = r
    /\ inflight' = [inflight EXCEPT ![r].pc = "locked"]
    /\ UNCHANGED <<gamevars, poisoned, card_set, starts, regular, draw_run>>

\* find_game_by_id_mut, the token checks and the status check
Lookup(r) ==
    /\ UNCHANGED lbvars
    /\ inflight[r].pc = "locked"
    /\ IF status # "Running"
       THEN /\ inflight' = [inflight EXCEPT ![r] = IdleRequest]
            /\ Unlock(r)
       ELSE /\ inflight' = [inflight EXCEPT ![r].pc = "found", ![r].seen = Some(Game)]
            /\ repo_lock' = HolderAfterLookup(r)
    /\ UNCHANGED <<gamevars, poisoned, card_set, starts, regular, draw_run>>

\* the checks of Game::play_card (can_player_play) or Game::draw_cards
\* (can_player_draw) on the request's arguments
Check(r, call) ==
    /\ UNCHANGED lbvars
    /\ inflight[r].pc = "found"
    /\ LET check == IF call[1] = "play" THEN CanPlayerPlay(Game, call[2], call[3])
                    ELSE CanPlayerDraw(Game, call[2])
       IN  IF check # "Ok"
           THEN /\ inflight' = [inflight EXCEPT ![r] = IdleRequest]
                /\ Unlock(r)
           ELSE /\ inflight' = [inflight EXCEPT ![r] =
                                   [pc |-> "checked", call |-> call, seen |-> Some(Game)]]
                /\ UNCHANGED repo_lock
    /\ UNCHANGED <<gamevars, poisoned, card_set, starts, regular, draw_run>>

\* the rest of Game::play_card or Game::draw_cards, the response and the end
\* of the handler
Commit(r) ==
    /\ UNCHANGED lbvars
    /\ inflight[r].pc = "checked"
    /\ LET call == inflight[r].call
       IN  IF call[1] = "play"
           THEN LET o == GamePlayCard(Game, call[2], call[3], call[4])
                IN  /\ SetGame(o.g)
                    /\ poisoned' = (o.result = "Panic")
                    /\ draw_run' = IF o.result # "Ok" THEN draw_run
                                   ELSE IF call[3].symbol \notin {"Draw2", "Draw4"}
                                        THEN [symbol |-> "", count |-> 0]
                                   ELSE IF draw_run.symbol = call[3].symbol
                                        THEN [draw_run EXCEPT !.count = @ + 1]
                                   ELSE [symbol |-> call[3].symbol, count |-> 1]
           ELSE \E o \in GameDrawCards(Game, call[2]) :
                    /\ SetGame(o.g)
                    /\ poisoned' = (o.result = "Panic")
                    /\ draw_run' = IF o.result = "Ok" THEN [symbol |-> "", count |-> 0]
                                   ELSE draw_run
    /\ inflight' = [inflight EXCEPT ![r] = IdleRequest]
    /\ Unlock(r)
    /\ UNCHANGED <<regular, starts, card_set>>

\* the calls a request may carry
InputCalls ==
    { <<"play", p, c, nc>> : p \in InputNames, c \in InputCards, nc \in InputColors }
    \cup { <<"draw", p>> : p \in InputNames }

\* a player joins, the game is started: whole requests of other handlers,
\* which take the same mutex
Join == repo_lock = 0 /\ Len(players) < MaxHandlerPlayers /\ AddPlayer

Begin == repo_lock = 0 /\ starts < MaxHandlerStarts /\ Start

NextHandlers ==
    \/ Join
    \/ Begin
    \/ \E r \in Requests : Arrive(r)
    \/ \E r \in Requests : Lock(r)
    \/ \E r \in Requests : Lookup(r)
    \/ \E r \in Requests, call \in InputCalls : Check(r, call)
    \/ \E r \in Requests : Commit(r)

SpecHandlers == Init /\ [][NextHandlers]_vars

\* add_player called as the spec asks of the caller: only while in Lobby
AddPlayerInLobby == status = "Lobby" /\ AddPlayer

NextLobbyJoins ==
    \/ AddPlayerInLobby
    \/ Start
    \/ \E p \in InputNames, c \in InputCards, nc \in InputColors : PlayCard(p, c, nc)
    \/ \E p \in InputNames : DrawCards(p)

SpecLobbyJoins == Init /\ [][NextLobbyJoins]_vars

-----------------------------------------------------------------------------
(* GameServerRepo of the load balancer, step by step *)

Addresses == 1..MaxAddresses

\* the ids a get may ask for: those of the list and some past its end
ServerIds == 0..MaxServers

notgame == <<status, players, deck, current_player, active_cards, is_clockwise,
             poisoned, card_set, starts, regular, draw_run, repo_lock, inflight>>

\* Vec::iter().position(..).is_some()
IsRegistered(list, address) == \E i \in 1..Len(list) : list[i] = address

\* the write guard given up once the search is done
WriterNobody(c) == 0

\* the holder of the write lock after the search: `servers` is the guard, it
\* lives until add returns
WriterAfterSearch(c) == c

\* add(server_address) or get(server_id) is called
Call(c, op, arg) ==
    /\ calls[c].pc = "idle"
    /\ op = "add" =>
           Len(servers) + Cardinality({ d \in Calls : calls[d].op = "add" }) < MaxServers
    /\ calls' = [calls EXCEPT ![c] =
                    [IdleCall EXCEPT !.pc = "called", !.op = op,
                                     !.address = IF op = "add" THEN arg ELSE 0,
                                     !.server_id = IF op = "get" THEN arg ELSE 0]]
    /\ UNCHANGED <<notgame, servers, servers_lock, answers>>

\* add: self.servers.write(), granted when nobody reads or writes
AddLock(c) ==
    /\ calls[c].pc = "called" /\ calls[c].op = "add"
    /\ servers_lock.writer = 0 /\ servers_lock.readers = {}
    /\ servers_lock' = [servers_lock EXCEPT !.writer = c]
    /\ calls' = [calls EXCEPT ![c].pc = "locked", ![c].before = servers]
    /\ UNCHANGED <<notgame, servers, answers>>

\* add: the search for the address; ServerAlreadyRegistered when it is found
AddSearch(c) ==
    /\ calls[c].pc = "locked" /\ calls[c].op = "add"
    /\ IF IsRegistered(servers, calls[c].address)
       THEN /\ calls' = [calls EXCEPT ![c].pc = "returning",
                                      ![c].result = <<"ServerAlreadyRegistered">>]
            /\ UNCHANGED servers_lock
       ELSE /\ calls' = [calls EXCEPT ![c].pc = "searched"]
            /\ servers_lock' = [servers_lock EXCEPT !.writer = WriterAfterSearch(c)]
    /\ UNCHANGED <<notgame, servers, answers>>

\* add: server_id = servers.len(); servers.push(..); ServerAdded
AddPush(c) ==
    /\ calls[c].pc = "searched"
    /\ servers' = Append(servers, calls[c].address)
    /\ calls' = [calls EXCEPT ![c].pc = "returning",
                              ![c].server_id = Len(servers),
                              ![c].result = <<"ServerAdded">>]
    /\ UNCHANGED <<notgame, servers_lock, answers>>

\* get: self.servers.read(), granted when nobody writes
GetLock(c) ==
    /\ calls[c].pc = "called" /\ calls[c].op = "get"
    /\ servers_lock.writer = 0
    /\ servers_lock' = [servers_lock EXCEPT !.readers = @ \cup {c}]
    /\ calls' = [calls EXCEPT ![c].pc = "locked", ![c].before = servers]
    /\ UNCHANGED <<notgame, servers, answers>>

\* get: servers.get(server_id): NotFound or the address, cloned
GetRead(c) ==
    /\ calls[c].pc = "locked" /\ calls[c].op = "get"
    /\ calls' = [calls EXCEPT ![c].pc = "returning",
                              ![c].result =
                                  IF calls[c].server_id < Len(servers)
                                  THEN <<"Ok", servers[calls[c].server_id + 1]>>
                                  ELSE <<"NotFound">>]
    /\ UNCHANGED <<notgame, servers, servers_lock, answers>>

\* the call returns and its guard is dropped
Return(c) ==
    /\ calls[c].pc = "returning"
    /\ servers_lock' = [writer |-> IF servers_lock.writer = c THEN 0
                                   ELSE servers_lock.writer,
                        readers |-> servers_lock.readers \ {c}]
    /\ answers' = IF calls[c].result[1] = "Ok"
                  THEN answers \cup { <<calls[c].server_id, calls[c].result[2]>> }
                  ELSE answers
    /\ calls' = [calls EXCEPT ![c] = IdleCall]
    /\ UNCHANGED <<notgame, servers>>

NextBalancer ==
    \/ \E c \in Calls, address \in Addresses : Call(c, "add", address)
    \/ \E c \in Calls, server_id \in ServerIds : Call(c, "get", server_id)
    \/ \E c \in Calls : AddLock(c)
    \/ \E c \in Calls : AddSearch(c)
    \/ \E c \in Calls : AddPush(c)
    \/ \E c \in Calls : GetLock(c)
    \/ \E c \in Calls : GetRead(c)
    \/ \E c \in Calls : Return(c)

SpecBalancer == Init /\ [][NextBalancer]_vars

-----------------------------------------------------------------------------
(* Properties *)

\* the number of cards in all hands
RECURSIVE CardsInHands(_)
CardsInHands(ps) ==
    IF ps = <<>> THEN 0
    ELSE BagCardinality(Head(ps).cards) + CardsInHands(Tail(ps))

\* all hands as one bag
RECURSIVE HandsBag(_)
HandsBag(ps) ==
    IF ps = <<>> THEN EmptyBag ELSE Head(ps).cards (+) HandsBag(Tail(ps))

Seats == 1..Len(players)

Unfinished == { i \in Seats : players[i].cards # EmptyBag }

Ranked == { i \in Seats : players[i].position # None }

\* the legality rule, read off the state: the chain's symbol while a chain is
\* active, otherwise Black or the colour or the symbol of the top discard card
RuleAllows(card) ==
    IF active_cards # <<>>
    THEN card.symbol = active_cards[1].symbol
    ELSE \/ card.color = "Black"
         \/ card.color = deck.discard_pile[Len(deck.discard_pile)].color
         \/ card.symbol = deck.discard_pile[Len(deck.discard_pile)].symbol

AllCards ==
    { Card(c, sy) : c \in {"Red", "Blue", "Black"},
                    sy \in {"Value1", "Value2", "Skip", "Reverse", "Draw2", "Draw4", "Wild"} }

\* a game begun by a successful start, nobody seated since, no panic so far
InRegularGame == regular /\ ~poisoned /\ status = "Running"

\* C1: in every state reached by new, add_player, start, play_card and
\* draw_cards calls, the draw pile, the discard pile and the hands together
\* hold CARDS_TOTAL_IN_GAME cards.
CardCountConservation ==
    ~poisoned => DeckCount(deck) + CardsInHands(players) = CARDS_TOTAL_IN_GAME

\* C2: while a game begun by a successful start is Running and some player
\* still holds cards, current_player is the index of a player who holds cards.
TurnValidity ==
    (InRegularGame /\ Unfinished # {}) =>
        /\ current_player < Len(players)
        /\ (current_player + 1) \in Unfinished

\* a finished player has been skipped: the turn is with the other one
TurnValidityCase ==
    /\ InRegularGame
    /\ Unfinished # {} /\ Unfinished # Seats
    /\ (current_player + 1) \in Unfinished

\* C3: draw_cards(p) returns Ok only if p is the current player, no card of
\* p's hand is allowed by the legality rule and no Skip chain is active; if the
\* current player holds a card the rule allows, it fails with
\* PlayerCanPlayInstead.
DrawExclusivity ==
    ~poisoned =>
    \A p \in InputNames : \A o \in GameDrawCards(Game, p) :
        LET idx == FindPlayer(Game, p)
            at_turn == idx # 0 /\ current_player + 1 = idx
        IN  /\ o.result = "Ok" =>
                /\ at_turn
                /\ \A c \in BagToSet(players[idx].cards) : ~RuleAllows(c)
                /\ ~(active_cards # <<>> /\ active_cards[1].symbol = "Skip")
            /\ (at_turn /\ \E c \in BagToSet(players[idx].cards) : RuleAllows(c)) =>
                o.result = "PlayerCanPlayInstead"

\* a draw chain is active and the player at turn, holding cards but none of the
\* chain's symbol, may draw
DrawExclusivityCase ==
    /\ InRegularGame
    /\ active_cards # <<>>
    /\ players[current_player + 1].cards # EmptyBag
    /\ \E o \in GameDrawCards(Game, players[current_player + 1].name) : o.result = "Ok"

\* one step inside a game: a rank once set stays, a rank is given only to the
\* player whose hand just became empty, and it is the number of ranks given
\* before
FinishOrderStep ==
    (InRegularGame /\ regular' /\ ~poisoned' /\ starts' = starts) =>
        \A i \in Seats :
            /\ players[i].position # None => players'[i].position = players[i].position
            /\ (players[i].cards # EmptyBag /\ players'[i].cards = EmptyBag) =>
                   players'[i].position = Some(Cardinality(Ranked))
            /\ (players[i].position = None /\ players'[i].position # None) =>
                   (players[i].cards # EmptyBag /\ players'[i].cards = EmptyBag)

\* the ranks given so far are 0, 1, 2, ... without gaps or repeats
RanksDense ==
    (regular /\ ~poisoned) =>
        /\ \A i, j \in Ranked : players[i].position = players[j].position => i = j
        /\ { Unwrap(players[i].position) : i \in Ranked } = 0..(Cardinality(Ranked) - 1)

\* C4: within one game the k-th player whose hand becomes empty through
\* play_card gets position Some(k-1), the ranks are 0, 1, 2, ... without gaps
\* or repeats, and a position once set is not changed by a later play_card or
\* draw_cards.
FinishOrderMonotone == []RanksDense /\ [][FinishOrderStep]_vars

\* two players have finished, first and second
FinishOrderCase ==
    /\ regular /\ ~poisoned
    /\ \E i, j \in Seats : players[i].position = Some(0) /\ players[j].position = Some(1)

\* C5: can_play_card(card) is the legality rule, for every card, top discard
\* card and chain.
CanPlayCardIsTheRule ==
    \A card \in AllCards : CanPlayCard(Game, card) = RuleAllows(card)

\* a chain is active and a Black Wild is refused, a card of the chain's symbol
\* accepted
CanPlayCardCase ==
    /\ status = "Running"
    /\ active_cards # <<>>
    /\ ~CanPlayCard(Game, Card("Black", "Wild"))
    /\ CanPlayCard(Game, Card("Black", active_cards[1].symbol))

\* C6: whenever play_card returns an error, the whole game state is as before
\* the call.
PlayCardErrorsChangeNothing ==
    ~poisoned =>
    \A p \in InputNames, c \in InputCards, nc \in InputColors :
        LET o == GamePlayCard(Game, p, c, nc)
        IN  o.result \notin {"Ok", "Panic"} => o.g = Game

\* each of the errors play_card can return is returned in one state
PlayCardErrorsCase ==
    /\ InRegularGame
    /\ \A e \in {"NoSuchPlayer", "PlayerOutOfTurn", "CardCannotBePlayed",
                 "PlayerHasNoSuchCard"} :
           \E p \in InputNames, c \in InputCards, nc \in InputColors :
               GamePlayCard(Game, p, c, nc).result = e

\* the hand of the player at turn, and the player's name
HandAtTurn == players[current_player + 1].cards
NameAtTurn == players[current_player + 1].name

\* C7 as stated: a play_card of the player at turn with a card that is not in
\* the hand fails with PlayerHasNoSuchCard and changes nothing, whether or not
\* the card is legal.
NoSuchCardWhateverTheCard ==
    InRegularGame =>
    \A c \in InputCards, nc \in InputColors :
        LET o == HandlerPlayCard(Game, NameAtTurn, c, nc)
        IN  ~BagIn(c, HandAtTurn) => (o.result = "PlayerHasNoSuchCard" /\ o.g = Game)

\* C7: a play_card of the player at turn with a card that is not in the hand
\* fails with PlayerHasNoSuchCard when the legality rule allows the card and
\* with CardCannotBePlayed when it does not; the hand, and the rest of the
\* state, is unchanged.
NoSuchCardAfterLegality ==
    InRegularGame =>
    \A c \in InputCards, nc \in InputColors :
        LET o == HandlerPlayCard(Game, NameAtTurn, c, nc)
        IN  ~BagIn(c, HandAtTurn) =>
                /\ o.result = IF RuleAllows(c) THEN "PlayerHasNoSuchCard"
                              ELSE "CardCannotBePlayed"
                /\ o.g = Game

\* the player at turn lacks a card the rule allows and a card it does not
NoSuchCardCase ==
    /\ InRegularGame
    /\ \E c \in InputCards : ~BagIn(c, HandAtTurn) /\ RuleAllows(c)
    /\ \E c \in InputCards : ~BagIn(c, HandAtTurn) /\ ~RuleAllows(c)

\* C8: start() fails with GameAlreadyStarted exactly when the status is Running,
\* and then changes nothing; from Lobby and from Finished it does not.
StartRejectedIffRunning ==
    ~poisoned =>
        IF status = "Running"
        THEN StartOutcomes(Game, card_set) = { [g |-> Game, result |-> "GameAlreadyStarted"] }
        ELSE \A o \in StartOutcomes(Game, card_set) : o.result # "GameAlreadyStarted"

\* a finished game, with hands and positions left over, that start() accepts
StartRejectedCase ==
    /\ ~poisoned /\ status = "Finished"
    /\ Ranked # {} /\ Unfinished # {}
    /\ \E o \in StartOutcomes(Game, card_set) : o.result = "Ok"

\* C9: after a successful start(), from Lobby or from Finished, the status is
\* Running, every hand holds CARDS_DEALT_TO_PLAYERS cards of a fresh deck, every
\* position is None, the players are those seated before and current_player is
\* an index into players.
StartPostState ==
    ~poisoned =>
    \A o \in StartOutcomes(Game, card_set) :
        o.result = "Ok" =>
            /\ o.g.status = "Running"
            /\ \A i \in 1..Len(o.g.players) :
                   /\ BagCardinality(o.g.players[i].cards) = CARDS_DEALT_TO_PLAYERS
                   /\ o.g.players[i].position = None
            /\ Len(o.g.deck.discard_pile) = 1
            /\ HandsBag(o.g.players) (+) o.g.deck.draw_pile (+) SeqToBag(o.g.deck.discard_pile)
                   = FullCardSet(card_set)
            /\ Len(o.g.players) = Len(players)
            /\ { [name |-> o.g.players[i].name, is_author |-> o.g.players[i].is_author] :
                    i \in 1..Len(o.g.players) }
               = { [name |-> players[i].name, is_author |-> players[i].is_author] :
                    i \in Seats }
            /\ o.g.current_player \in 0..(Len(o.g.players) - 1)

\* a second game has begun
StartPostStateCase ==
    /\ InRegularGame
    /\ starts = 2
    /\ \A i \in Seats : players[i].position = None

\* C10: when start() fails with DeckEmptyWhenStartingGame, the status, the
\* seating order, the hands and the positions are as before the call.
FailedStartChangesNothing ==
    ~poisoned =>
    \A o \in StartOutcomes(Game, card_set) :
        o.result = "DeckEmptyWhenStartingGame" =>
            /\ o.g.status = status
            /\ o.g.players = players


\* the seat j steps after seat cur (0-based) in the direction of play
SeatAhead(ps, clockwise, cur, j) ==
    IF clockwise THEN (cur + j) % Len(ps)
    ELSE (cur + (Len(ps) - 1) * j) % Len(ps)

\* the nearest seat strictly after cur, in the direction of play, whose player
\* holds cards; cur itself after a whole round
NearestUnfinished(ps, clockwise, cur) ==
    LET ahead == { j \in 1..Len(ps) :
                     ps[SeatAhead(ps, clockwise, cur, j) + 1].cards # EmptyBag }
        first == CHOOSE j \in ahead : \A k \in ahead : j <= k
    IN  SeatAhead(ps, clockwise, cur, first)

\* the forced-draw amount of the chain, 1 without a chain
RequestedDraw ==
    IF active_cards = <<>> THEN 1
    ELSE IF active_cards[1].symbol = "Draw2" THEN 2 * Len(active_cards)
    ELSE IF active_cards[1].symbol = "Draw4" THEN 4 * Len(active_cards)
    ELSE 0

\* the cards a draw can reach: the draw pile and all of the discard pile but
\* its top
Drawable == BagCardinality(deck.draw_pile) + Len(deck.discard_pile) - 1

\* C11: a successful draw_cards(p) draws the forced-draw amount of an active
\* Draw2/Draw4 chain and 1 card otherwise, fewer only if the deck runs out; the
\* cards returned are those added to p's hand, the chain is empty afterwards
\* and the turn is with the next unfinished player, also after a short draw.
DrawCount ==
    (~poisoned /\ status = "Running") =>
    \A p \in InputNames : \A o \in GameDrawCards(Game, p) :
        LET idx == FindPlayer(Game, p)
            want == RequestedDraw
        IN  o.result = "Ok" =>
            /\ BagCardinality(o.drawn) = IF want <= Drawable THEN want ELSE Drawable
            /\ o.g.players[idx].cards = players[idx].cards (+) o.drawn
            /\ \A i \in Seats \ {idx} : o.g.players[i] = players[i]
            /\ o.g.deck.draw_pile (+) SeqToBag(o.g.deck.discard_pile) (+) o.drawn
                   = deck.draw_pile (+) SeqToBag(deck.discard_pile)
            /\ o.g.active_cards = <<>>
            /\ (\E i \in Seats : o.g.players[i].cards # EmptyBag) =>
                   o.g.current_player
                       = NearestUnfinished(o.g.players, is_clockwise, current_player)

\* a chain of two Draw2 is active and the deck has fewer than four cards to
\* give: the draw succeeds with fewer
DrawCountCase ==
    /\ InRegularGame
    /\ Len(active_cards) = 2
    /\ RequestedDraw = 4
    /\ Drawable < 4 /\ Drawable > 0
    /\ \E o \in GameDrawCards(Game, players[current_player + 1].name) :
           o.result = "Ok" /\ BagCardinality(o.drawn) = Drawable


\* the forced-draw amount of one card of the symbol
DrawAmount(symbol) == IF symbol = "Draw2" THEN 2 ELSE IF symbol = "Draw4" THEN 4 ELSE 0

\* C12: after k Draw2 played in a row by successive players, no draw in
\* between, the pending forced-draw amount is 2k, after k Draw4 it is 4k: the
\* chain grows by one card with each of these plays and is not reset between
\* them.
ChainAccumulation ==
    (~poisoned /\ draw_run.count > 0) =>
        /\ Len(active_cards) = draw_run.count
        /\ \A i \in 1..Len(active_cards) : active_cards[i].symbol = draw_run.symbol
        /\ SumActiveDrawCards(active_cards)
               = Some(DrawAmount(draw_run.symbol) * draw_run.count)

\* two Draw4 were played in a row: 8 cards are due
ChainAccumulationCase ==
    /\ InRegularGame
    /\ draw_run = [symbol |-> "Draw4", count |-> 2]
    /\ SumActiveDrawCards(active_cards) = Some(8)


\* C13: with exactly two players seated, both holding cards, a successful play
\* of a Reverse by the player at turn flips is_clockwise and leaves the turn
\* with the player who played it.
ReverseRepeatsTurn ==
    (InRegularGame /\ Len(players) = 2 /\ Unfinished = Seats) =>
    \A c \in InputCards, nc \in InputColors :
        LET o == GamePlayCard(Game, NameAtTurn, c, nc)
        IN  (/\ c.symbol = "Reverse"
             /\ o.result = "Ok"
             /\ \A i \in Seats : o.g.players[i].cards # EmptyBag) =>
                /\ o.g.is_clockwise = ~is_clockwise
                /\ o.g.current_player = current_player


\* the outcomes of the two operations: a successful play_card ends the game
\* exactly when the turn is back with the player who played, and then nobody
\* else holds cards; draw_cards leaves the status alone
FinishedByPlayOnly ==
    (~poisoned /\ status = "Running") =>
        /\ \A p \in InputNames, c \in InputCards, nc \in InputColors :
               LET o == GamePlayCard(Game, p, c, nc)
                   left == { i \in Seats : o.g.players[i].cards # EmptyBag }
               IN  IF o.result = "Ok"
                   THEN /\ o.g.status \in {"Running", "Finished"}
                        /\ (o.g.status = "Finished")
                              <=> (o.g.players[o.g.current_player + 1].name = p)
                        /\ o.g.status = "Finished" => left \subseteq {FindPlayer(Game, p)}
                        /\ Cardinality(left) >= 2 => o.g.status = "Running"
                   ELSE o.g.status = status
        /\ \A p \in InputNames : \A o \in GameDrawCards(Game, p) : o.g.status = status

\* a step that takes the status away from Running is a play: it ends in
\* Finished with one card more on the discard pile
FinishedStep ==
    (status = "Running" /\ status' # "Running") =>
        /\ status' = "Finished"
        /\ Len(deck'.discard_pile) = Len(deck.discard_pile) + 1
        /\ players'[current_player' + 1].cards \sqsubseteq players[current_player' + 1].cards
        /\ \A i \in Seats \ {current_player' + 1} : players'[i].cards = EmptyBag

\* C14: the status goes from Running to Finished only in a successful
\* play_card, exactly when after the turn advance the current player is the
\* one who played, which is when every other player is finished; draw_cards
\* does not change the status and a play that leaves two players with cards
\* leaves the game Running.
FinishedTransition == []FinishedByPlayOnly /\ [][FinishedStep]_vars

\* a two-player game has ended: one finished first, the other played on and
\* got the turn back
FinishedTransitionCase ==
    /\ regular /\ ~poisoned
    /\ status = "Finished"
    /\ Len(players) = 2
    /\ Unfinished = {current_player + 1}
    /\ Ranked = Seats \ Unfinished


SkipChainActive == active_cards # <<>> /\ active_cards[1].symbol = "Skip"

HoldsSkip == \E c \in BagToSet(HandAtTurn) : c.symbol = "Skip"

\* C15: while a Skip chain is active draw_cards by the player at turn does not
\* succeed: it fails with PlayerMustPlayInstead, carrying the top discard card,
\* when the player holds no Skip and with PlayerCanPlayInstead when they do,
\* and changes nothing; the forced-draw sum is asked for only when there is one.
NoDrawOnSkipChain ==
    (~poisoned /\ status = "Running") =>
        /\ SkipChainActive =>
               /\ GameDrawCards(Game, NameAtTurn)
                      = { [g |-> Game,
                           result |-> IF HoldsSkip THEN "PlayerCanPlayInstead"
                                      ELSE "PlayerMustPlayInstead",
                           drawn |-> EmptyBag] }
               /\ ~HoldsSkip =>
                      MustPlayInsteadCard(Game, NameAtTurn)
                          = Some(deck.discard_pile[Len(deck.discard_pile)])
        /\ \A p \in InputNames :
               (CanPlayerDraw(Game, p) = "Ok" /\ active_cards # <<>>) =>
                   SumActiveDrawCards(active_cards) # None

\* a Skip was played and the player now at turn holds cards, none of them a Skip
NoDrawOnSkipChainCase ==
    /\ InRegularGame
    /\ SkipChainActive
    /\ TopDiscardCard(deck).symbol = "Skip"
    /\ HandAtTurn # EmptyBag
    /\ ~HoldsSkip


\* C16: all cards of ActiveCards have one symbol, Skip, Draw2 or Draw4, and
\* the push of play_card for a played Skip, Draw2 or Draw4 does not fail: a
\* card of another symbol does not get past can_play_card while a chain is
\* active.
SingleChainFamily ==
    /\ \A i \in 1..Len(active_cards) :
           /\ active_cards[i].symbol = active_cards[1].symbol
           /\ active_cards[i].symbol \in {"Skip", "Draw2", "Draw4"}
    /\ ~poisoned =>
           \A p \in InputNames, c \in InputCards, nc \in InputColors :
               LET m == MutatePlayer(Game, p, c, nc, PossiblePosition(Game))
               IN  (CanPlayerPlay(Game, p, c) = "Ok" /\ m.result = "Ok") =>
                       ~HandlePlayedCard(m.g, m.played_card).panic

\* a chain of two cards, and the player at turn holds a Skip, Draw2 or Draw4
\* of another symbol, which is refused
SingleChainFamilyCase ==
    /\ InRegularGame
    /\ Len(active_cards) = 2
    /\ \E c \in BagToSet(HandAtTurn) :
           /\ c.symbol \in {"Skip", "Draw2", "Draw4"}
           /\ c.symbol # active_cards[1].symbol
           /\ CanPlayerPlay(Game, NameAtTurn, c) = "CardCannotBePlayed"


\* C17: every Wild and every Draw4 in a hand or in the draw pile is Black, also
\* after the discard pile went back into the draw pile; a wild-family card is
\* coloured only while it lies on the discard pile.
WildsAreBlackOffThePile ==
    ~poisoned =>
    \A c \in BagToSet(HandsBag(players) (+) deck.draw_pile) :
        ShouldBeBlack(c) => c.color = "Black"


\* the requests past safe_lock
InHandler == { r \in Requests : inflight[r].pc \in {"locked", "found", "checked"} }

\* C18: the handlers hold the repository lock from before the game lookup
\* until the response: of two requests on the game only one is past the lock,
\* and the game it looked at and checked its call against is the game as it
\* still is.
HandlerMutualExclusion ==
    /\ Cardinality(InHandler) <= 1
    /\ \A r \in InHandler : repo_lock = r
    /\ \A r \in Requests :
           inflight[r].pc \in {"found", "checked"} => inflight[r].seen = Some(Game)

\* one request has passed its checks and is about to change the game, the
\* other one waits for the lock
HandlerMutualExclusionCase ==
    /\ status = "Running" /\ Len(players) = 2
    /\ \E r1, r2 \in Requests :
           /\ inflight[r1].pc = "checked"
           /\ inflight[r2].pc = "waiting"


EndTurnCalls ==
    IF status # "Running" THEN {}
    ELSE { [HandlePlayedCard(m.g, m.played_card).g EXCEPT
                !.deck = DeckPlay(@, m.played_card)] :
             m \in { MutatePlayer(Game, call[2], call[3], call[4], PossiblePosition(Game)) :
                       call \in { c \in InputCalls :
                                    /\ c[1] = "play"
                                    /\ CanPlayerPlay(Game, c[2], c[3]) = "Ok"
                                    /\ ~FinishedPlayersPanics(Game)
                                    /\ MutatePlayer(Game, c[2], c[3], c[4],
                                                    PossiblePosition(Game)).result = "Ok" } } }
         \cup
         UNION { { o.g : o \in DrawNCards([Game EXCEPT !.active_cards = <<>>],
                                          FindPlayer(Game, name),
                                          IF AreCardsActive(active_cards)
                                          THEN Unwrap(SumActiveDrawCards(active_cards))
                                          ELSE 1) } :
                   name \in { n \in InputNames :
                                /\ CanPlayerDraw(Game, n) = "Ok"
                                /\ AreCardsActive(active_cards) =>
                                       SumActiveDrawCards(active_cards) # None } }

\* what end_turn is to do on the game g
EndTurnAsClaimed(g) ==
    LET e == EndTurn(g)
        unfinished == { i \in 1..Len(g.players) : ~IsFinished(g.players[i]) }
    IN  IF unfinished = {}
        THEN ~e.found /\ e.g = g
        ELSE /\ e.found
             /\ e.g = [g EXCEPT !.current_player =
                          NearestUnfinished(g.players, g.is_clockwise, g.current_player)]
             /\ e.g.current_player = g.current_player =>
                    unfinished = { g.current_player + 1 }

\* C20: every call of end_turn returns: false with current_player unchanged
\* when all players are finished, else true with current_player on the nearest
\* unfinished player strictly after the old one in the direction of play, the
\* old player again only when they are the one unfinished player.
EndTurnReturns ==
    \A g \in EndTurnCalls \cup {Game} :
        (g # Game \/ status = "Running") =>
            ~EndTurn(g).panic /\ EndTurnAsClaimed(g)

\* the card that a successful play of card with maybe_new_color is to put on
\* the discard pile
RecolouredCard(card, maybe_new_color) ==
    IF card.symbol \in {"Wild", "Draw4"} /\ maybe_new_color # None
    THEN Card(Unwrap(maybe_new_color), card.symbol)
    ELSE card

\* a successful play of the request moves one card from the hand of the player
\* to the top of the discard pile, recoloured as RecolouredCard says
PlayedCardGoesToPile(player_name, card, maybe_new_color) ==
    LET o == HandlerPlayCard(Game, player_name, card, maybe_new_color)
        idx == FindPlayer(Game, player_name)
    IN  o.result = "Ok" =>
            /\ o.g.players[idx].cards = players[idx].cards (-) SetToBag({card})
            /\ BagIn(card, players[idx].cards)
            /\ o.g.deck.discard_pile =
                   Append(deck.discard_pile, RecolouredCard(card, maybe_new_color))

\* C21: on a successful play_card the card appended to the discard pile is the
\* card removed from the hand, recoloured to the supplied colour exactly when
\* it is a Wild or Draw4 and a colour was supplied; a wild-family card played
\* without a colour is Black on the pile, a supplied colour leaves a non-wild
\* card as it is.
PlayedCardRecolouring ==
    \A player_name \in InputNames, card \in InputCards, maybe_new_color \in InputColors :
        LET o == HandlerPlayCard(Game, player_name, card, maybe_new_color)
        IN  /\ PlayedCardGoesToPile(player_name, card, maybe_new_color)
            /\ (o.result = "Ok" /\ card.symbol \in {"Wild", "Draw4"}
                  /\ maybe_new_color = None) =>
                   TopDiscardCard(o.g.deck).color = "Black"

\* the notifications the claim expects of a successful play that led to the
\* game after: the card to everyone, then the finish to everyone if the hand
\* of the player is empty, then a status for each player if the game is
\* Finished
NotificationsDue(after, player_name, card, maybe_new_color) ==
    LET next_player == after.players[after.current_player + 1].name
        by == after.players[FindPlayer(after, player_name)]
        everyone(msg) == [i \in 1..Len(after.players) |->
                             [to |-> after.players[i].name, msg |-> msg]]
    IN  everyone(<<"play_card", player_name, next_player,
                   RecolouredCard(card, maybe_new_color)>>)
        \o (IF by.cards = EmptyBag THEN everyone(<<"finish", player_name>>) ELSE <<>>)
        \o (IF after.status = "Finished"
            THEN [i \in 1..Len(after.players) |->
                     [to |-> after.players[i].name,
                      msg |-> <<"status", after.players[i].name>>]]
            ELSE <<>>)

\* C22: a successful play_card tells every player of the card and of the player
\* now at turn, then of the finish iff the hand was emptied, then sends each
\* player their status iff the game became Finished; a failing play_card sends
\* nothing.
NotificationOrder ==
    \A player_name \in InputNames, card \in InputCards, maybe_new_color \in InputColors :
        LET o == HandlerPlayCard(Game, player_name, card, maybe_new_color)
        IN  IF o.result = "Ok"
            THEN o.sent = NotificationsDue(o.g, player_name, card, maybe_new_color)
            ELSE o.sent = <<>>

\* a play that empties the hand and ends the game: all three notifications are
\* sent, to two players
NotificationOrderCase ==
    /\ InRegularGame /\ Len(players) = 2
    /\ \E card \in InputCards, maybe_new_color \in InputColors :
           LET o == HandlerPlayCard(Game, NameAtTurn, card, maybe_new_color)
           IN  /\ o.result = "Ok"
               /\ o.g.status = "Finished"
               /\ Len(o.sent) = 6

\* the player at turn has an operation that succeeds: a play of a card of the
\* hand, or a draw
CurrentPlayerCanAct ==
    \/ \E card \in BagToSet(HandAtTurn), maybe_new_color \in InputColors :
           HandlerPlayCard(Game, NameAtTurn, card, maybe_new_color).result = "Ok"
    \/ \E o \in HandlerDrawCard(Game, NameAtTurn) : o.result = "Ok"

\* C23: in every Running state with an unfinished player the player at turn
\* has an operation that succeeds; a Skip chain met without a Skip card does
\* not leave the game stuck.
Progress ==
    (status = "Running" /\ ~poisoned /\ Unfinished # {}) => CurrentPlayerCanAct

\* C24: after every successful start(), the restart of a Finished game
\* included, ActiveCards is empty: the first player of the new game does not
\* face a chain of the game before.
NoChainAfterStart ==
    \A o \in StartOutcomes(Game, card_set) :
        o.result = "Ok" => o.g.active_cards = <<>>

\* the hand of a player is empty exactly when their position is set, and the
\* positions set are the ranks 0..n-1, each once
EmptyHandsAreRanked ==
    /\ \A i \in Seats : players[i].cards = EmptyBag <=> players[i].position # None
    /\ ~FinishedPlayersPanics(Game)
    /\ \A i, j \in Ranked : players[i].position = players[j].position => i = j
    /\ { Unwrap(players[i].position) : i \in Ranked } = 0..(Cardinality(Ranked) - 1)

\* C25: with players added only in Lobby, in every Running or Finished state a
\* hand is empty iff the position of the player is set, so get_finished_players
\* unwraps no missing position and the finished players have the ranks 0..n-1.
PositionIffEmptyHand ==
    status \in {"Running", "Finished"} => EmptyHandsAreRanked

\* every play_card and draw_card request on a game that is not Running is
\* answered with GAME_NOT_RUNNING, sends nothing and leaves the game as it is
RefusedUnlessRunning ==
    status # "Running" =>
        /\ \A player_name \in InputNames, card \in InputCards,
              maybe_new_color \in InputColors :
               LET o == HandlerPlayCard(Game, player_name, card, maybe_new_color)
               IN  o.result = "GAME_NOT_RUNNING" /\ o.g = Game /\ o.sent = <<>>
        /\ \A player_name \in InputNames :
               \A o \in HandlerDrawCard(Game, player_name) :
                   o.result = "GAME_NOT_RUNNING" /\ o.g = Game /\ o.drawn = EmptyBag

\* a step from a Finished game that is not a start() leaves the game as it is
FinishedStaysFixed ==
    (status = "Finished" /\ status' = "Finished") => UNCHANGED gamevars

\* C26: through the handlers a game that is not Running is never changed: the
\* request is refused with GAME_NOT_RUNNING before the game is called, and a
\* Finished game keeps its hands, piles, turn pointer and positions until the
\* next start().
NotRunningNotMutated == []RefusedUnlessRunning /\ [][FinishedStaysFixed]_vars

\* a Finished game whose player at turn holds a card that Game::play_card would
\* take: the guard of the handler is what refuses the request
NotRunningNotMutatedCase ==
    /\ status = "Finished" /\ ~poisoned
    /\ \E card \in BagToSet(HandAtTurn), maybe_new_color \in InputColors :
           /\ GamePlayCard(Game, NameAtTurn, card, maybe_new_color).result = "Ok"
           /\ HandlerPlayCard(Game, NameAtTurn, card, maybe_new_color).result
                  = "GAME_NOT_RUNNING"

\* the list holds no address twice
DuplicateFree == \A i, j \in 1..Len(servers) : servers[i] = servers[j] => i = j

\* what a call that is about to return has done: an add that answers
\* ServerAlreadyRegistered found its address and left the list as it was, an
\* add that answers ServerAdded appended its address, which was not there, once;
\* a get answers with the address at its id, NotFound at or past the end
CallsAnswerRight ==
    \A c \in Calls :
        calls[c].pc = "returning" =>
            IF calls[c].op = "add"
            THEN IF IsRegistered(calls[c].before, calls[c].address)
                 THEN /\ calls[c].result = <<"ServerAlreadyRegistered">>
                      /\ servers = calls[c].before
                 ELSE /\ calls[c].result = <<"ServerAdded">>
                      /\ servers = Append(calls[c].before, calls[c].address)
            ELSE calls[c].result =
                     IF calls[c].server_id < Len(servers)
                     THEN <<"Ok", servers[calls[c].server_id + 1]>>
                     ELSE <<"NotFound">>

\* every address that get has returned for an id is the address at that id
AnswersStand ==
    \A a \in answers : a[1] < Len(servers) /\ servers[a[1] + 1] = a[2]

\* a step leaves the list as it is or appends one address to it
AppendOnly ==
    \/ servers' = servers
    \/ \E address \in Addresses : servers' = Append(servers, address)

=============================================================================
